---------------------------- MODULE Spec2Model ----------------------------
(***************************************************************************)
(* blob_queue: the container codec (src/src/blob/storage.rs) and the       *)
(* per-type batching pipeline (src/src/main.rs).                           *)
(*                                                                         *)
(* Bytes are the integers 0..255 and a file is a sequence of bytes.        *)
(* as_u8_slice reinterprets native memory; the model is of a little-endian *)
(* target, where the bytes written are what from_file reads back with      *)
(* LittleEndian.                                                           *)
(***************************************************************************)
EXTENDS Integers, Sequences, FiniteSets, Bags, TLC

(***************************************************************************)
(* TLC's integers are 32-bit signed, so a u32 is held as the pair          *)
(* <<high 16 bits, low 16 bits>> and a u64 as a pair of u32 <<high, low>>. *)
(***************************************************************************)
U32Of(n) == << (n \div 65536) % 65536, n % 65536 >>

U64Of(n) == << U32Of(0), U32Of(n) >>

(***************************************************************************)
(* Program constants.                                                      *)
(***************************************************************************)
MAGIC == << 56026, 56026 >>
VERSION == U32Of(0)
RESERVED == [k \in 1..11 |-> U32Of(0)]
WRITER_COUNT == 10

(***************************************************************************)
(* Bit operations on bytes.                                                *)
(***************************************************************************)
RECURSIVE Xor(_, _)
Xor(a, b) ==
    IF a = 0 THEN b
    ELSE IF b = 0 THEN a
    ELSE ((a + b) % 2) + 2 * Xor(a \div 2, b \div 2)

XorByte == [a \in 0..255 |-> [b \in 0..255 |-> Xor(a, b)]]

(***************************************************************************)
(* crc32fast::Hasher: CRC-32 (IEEE 802.3), reflected polynomial            *)
(* 0xEDB88320, initial value and final xor 0xFFFFFFFF.  The 32-bit state   *)
(* is held as its four bytes, least significant first.                     *)
(***************************************************************************)
CrcPoly == << 32, 131, 184, 237 >>
CrcOnes == << 255, 255, 255, 255 >>

Xor4(x, y) == << XorByte[x[1]][y[1]], XorByte[x[2]][y[2]],
                 XorByte[x[3]][y[3]], XorByte[x[4]][y[4]] >>

CrcShift1(c) == << (c[1] \div 2) + (c[2] % 2) * 128,
                   (c[2] \div 2) + (c[3] % 2) * 128,
                   (c[3] \div 2) + (c[4] % 2) * 128,
                   c[4] \div 2 >>

RECURSIVE CrcBits(_, _)
CrcBits(c, n) ==
    IF n = 0 THEN c
    ELSE CrcBits(IF c[1] % 2 = 1 THEN Xor4(CrcPoly, CrcShift1(c))
                                 ELSE CrcShift1(c),
                 n - 1)

CrcTable == [b \in 0..255 |-> CrcBits(<< b, 0, 0, 0 >>, 8)]

\* crc = table[(crc ^ byte) & 0xFF] ^ (crc >> 8)
CrcStep(crc, byte) ==
    Xor4(CrcTable[XorByte[crc[1]][byte]], << crc[2], crc[3], crc[4], 0 >>)

\* The one element of a singleton set: it names a value computed once.
The(S) == CHOOSE x \in S : TRUE

\* Hasher::update over bytes[lo..hi]; the range is halved so that the
\* evaluation depth stays logarithmic in the length.
RECURSIVE CrcUpdate(_, _, _, _)
CrcUpdate(crc, bytes, lo, hi) ==
    IF lo > hi THEN crc
    ELSE IF lo = hi THEN CrcStep(crc, bytes[lo])
    ELSE LET mid == (lo + hi) \div 2
         IN  The({CrcUpdate(left, bytes, mid + 1, hi) :
                     left \in {CrcUpdate(crc, bytes, lo, mid)}})

\* Hasher::finalize, as a u32.
Crc32(bytes) ==
    The({<< c[3] + 256 * c[4], c[1] + 256 * c[2] >> :
            c \in {Xor4(CrcUpdate(CrcOnes, b, 1, Len(b)), CrcOnes) :
                      b \in {bytes}}})

(***************************************************************************)
(* as_u8_slice on a little-endian target, and the byteorder readers        *)
(* read_u32::<LittleEndian> and read_u64::<LittleEndian>.                  *)
(***************************************************************************)
LE32(w) == << w[2] % 256, w[2] \div 256, w[1] % 256, w[1] \div 256 >>

\* A u64 written high word first.
LE64HighFirst(d) == LE32(d[1]) \o LE32(d[2])

LE64(d) == LE32(d[2]) \o LE32(d[1])

RECURSIVE Concat(_)
Concat(ss) == IF ss = << >> THEN << >> ELSE Head(ss) \o Concat(Tail(ss))

ReadU32(bytes, at) ==
    << bytes[at + 2] + 256 * bytes[at + 3], bytes[at] + 256 * bytes[at + 1] >>

ReadU64(bytes, at) == << ReadU32(bytes, at + 4), ReadU32(bytes, at) >>

(***************************************************************************)
(* The container and its parts (storage.rs).                               *)
(***************************************************************************)
FileHeaderNew(checksum) == [magic |-> MAGIC, checksum |-> checksum]

FileHeaderAsBytes(h) == LE32(h.magic) \o LE32(h.checksum)

DataHeaderNew(version, type_id, toc_size, reserved) ==
    [version |-> version, type_id |-> type_id, toc_size |-> toc_size,
     reserved |-> reserved]

DataHeaderAsBytes(h) ==
    LE32(h.version) \o LE32(h.type_id) \o LE32(h.toc_size)
        \o Concat([k \in 1..Len(h.reserved) |-> LE32(h.reserved[k])])

TocEntryNewWithTimestamp(writer_id, data_size, timestamp) ==
    [writer_id |-> writer_id, data_size |-> data_size, timestamp |-> timestamp]

TocEntryAsBytes(e) ==
    LE32(e.writer_id) \o LE32(e.data_size) \o LE64(e.timestamp)

ContainerNew(type_id) ==
    [file_header |-> FileHeaderNew(U32Of(0)),
     data_header |-> DataHeaderNew(VERSION, U32Of(type_id), U32Of(0), RESERVED),
     toc |-> << >>,
     data |-> << >>]

\* Container::push; secs is what SystemTime::now() gives TocEntry::new.
ContainerPush(c, writer_id, data, secs) ==
    [c EXCEPT !.data = @ \o data,
              !.toc = Append(@, TocEntryNewWithTimestamp(
                                    U32Of(writer_id), U32Of(Len(data)),
                                    U64Of(secs)))]

\* A get_data_header that leaves the entry count out (toc_size 0).
GetDataHeaderNoCount(c) ==
    DataHeaderNew(VERSION, c.data_header.type_id, U32Of(0), RESERVED)

\* A get_data_header that hands out the stored data header.
GetDataHeaderStored(c) == c.data_header

GetDataHeader(c) ==
    DataHeaderNew(VERSION, c.data_header.type_id, U32Of(Len(c.toc)), RESERVED)

TocAsBytes(c) == Concat([k \in 1..Len(c.toc) |-> TocEntryAsBytes(c.toc[k])])

Checksum(c) ==
    Crc32(DataHeaderAsBytes(GetDataHeader(c)) \o TocAsBytes(c) \o c.data)

(***************************************************************************)
(* std::fs::File as save_to_file uses it.  Write::write may take fewer     *)
(* bytes than it is given, or fail.  A fault names one write call of the   *)
(* file (at, counted from 1) and what happens there: "short" takes the     *)
(* first half of the buffer and returns Ok, "fail" returns Err; every      *)
(* other call takes its whole buffer.  NoFault has at = 0.                 *)
(***************************************************************************)
NoFault == [at |-> 0, kind |-> "none"]

Faults(ncalls) ==
    {NoFault} \cup [at : 1..ncalls, kind : {"short", "fail"}]

\* The buffers save_to_file hands to file.write, in call order.
WriteCalls(c) ==
    << FileHeaderAsBytes(c.file_header), DataHeaderAsBytes(GetDataHeader(c)) >>
        \o [k \in 1..Len(c.toc) |-> TocEntryAsBytes(c.toc[k])]
        \o << c.data >>

\* The write calls from call j on; `?` returns at the first Err.
RECURSIVE WriteFrom(_, _, _, _)
WriteFrom(bufs, j, content, fault) ==
    IF j > Len(bufs) THEN [ret |-> "Ok", content |-> content]
    ELSE IF fault.at = j /\ fault.kind = "fail"
         THEN [ret |-> "Err", content |-> content]
    ELSE IF fault.at = j /\ fault.kind = "short"
         THEN The({WriteFrom(bufs, j + 1, written, fault) :
                      written \in {content \o SubSeq(bufs[j], 1,
                                                     Len(bufs[j]) \div 2)}})
    ELSE The({WriteFrom(bufs, j + 1, written, fault) :
                 written \in {content \o bufs[j]}})

\* save_to_file, first statement: self.file_header.checksum = self.checksum()
SetChecksum(c) == [c EXCEPT !.file_header.checksum = Checksum(c)]

\* save_to_file, the rest: the write calls on a freshly created (empty) file;
\* the result and the file's bytes afterwards.
WriteOut(c, fault) ==
    The({WriteFrom(bufs, 1, << >>, fault) : bufs \in {WriteCalls(c)}})

\* Container::save_to_file: the container as it is left, the result, and
\* the file's bytes afterwards.
SaveToFile(c, fault) ==
    LET sealed == SetChecksum(c)
        out == WriteOut(sealed, fault)
    IN  [container |-> sealed, ret |-> out.ret, content |-> out.content]

(***************************************************************************)
(* Container::from_file.                                                   *)
(***************************************************************************)
FileHeaderLen == 8
DataHeaderLen == 56
TocEntryLen == 16

NoContainer == [file_header |-> << >>, data_header |-> << >>,
                toc |-> << >>, data |-> << >>]

Failed(kind) == [kind |-> kind, container |-> NoContainer]

\* The number of TOC entries the loop reads before it runs out of bytes, or
\* toc_size when the file holds that many.
TocAvailable(bytes) ==
    (Len(bytes) - FileHeaderLen - DataHeaderLen) \div TocEntryLen

ReadTocEntry(bytes, at) ==
    TocEntryNewWithTimestamp(ReadU32(bytes, at), ReadU32(bytes, at + 4),
                             ReadU64(bytes, at + 8))

\* A from_file that takes any magic.
MagicMatchesAny(magic) == TRUE

\* if magic != MAGIC { return Err(Unsupported) }
MagicMatches(magic) == magic = MAGIC

FromFile(bytes) ==
    IF Len(bytes) < 4 THEN Failed("UnexpectedEof")
    ELSE IF ~MagicMatches(ReadU32(bytes, 1)) THEN Failed("Unsupported")
    ELSE IF Len(bytes) < FileHeaderLen + DataHeaderLen
         THEN Failed("UnexpectedEof")
    ELSE
      LET checksum == ReadU32(bytes, 5)
          version  == ReadU32(bytes, 9)
          type_id  == ReadU32(bytes, 13)
          toc_size == ReadU32(bytes, 17)
          reserved == [k \in 1..Len(RESERVED) |-> ReadU32(bytes, 17 + 4 * k)]
          tocAt    == FileHeaderLen + DataHeaderLen
      IN  IF toc_size[1] > 0 \/ toc_size[2] > TocAvailable(bytes)
          THEN Failed("UnexpectedEof")
          ELSE
            LET n == toc_size[2]
                container ==
                  [file_header |-> FileHeaderNew(checksum),
                   data_header |->
                       DataHeaderNew(version, type_id, toc_size, reserved),
                   toc |-> [k \in 1..n |->
                              ReadTocEntry(bytes,
                                           tocAt + TocEntryLen * (k - 1) + 1)],
                   data |-> SubSeq(bytes, tocAt + TocEntryLen * n + 1,
                                   Len(bytes))]
            IN  IF Checksum(container) # container.file_header.checksum
                THEN Failed("InvalidData")
                ELSE [kind |-> "Ok", container |-> container]

(***************************************************************************)
(* State.                                                                  *)
(* The wall clock (SystemTime::now) is not monotonic and is no part of the *)
(* state: every reading is an input, drawn from a set of instants given in *)
(* microseconds since the epoch.                                           *)
(* Codec harness: one container is built, saved to a file, the file is     *)
(* possibly damaged, and read back.                                        *)
(*   cContainer     the Container being built, then as save_to_file left it*)
(*   cStage         "build", "saved", "savefail", "loaded" or "resaved"    *)
(*   cFault         the write fault the save met                           *)
(*   cOrig          the file's bytes right after the save                  *)
(*   cFile          the file's bytes now                                   *)
(*   cResult        what from_file returned                                *)
(* Sizes of one container, for blobs of any length a 64-bit usize holds:   *)
(*   sizes          the data_size (u32) of the TOC entries pushed          *)
(*   dataLen        data.len() (usize, as four 16-bit digits, high first)  *)
(* Pipeline (main.rs), per configured type t:                              *)
(*   objects_in_container[t]  the configured threshold                     *)
(*   chan[t]        the unbounded channel: PostData sent, not yet received *)
(*   pc[t]          where the Batch Writer task is: "start" (top of the    *)
(*                  loop), "recv" (in the for loop), "flush" (after it),   *)
(*                  "panicked" (an unwrap failed; the task and its         *)
(*                  receiver are gone)                                     *)
(*   creation_time[t], container[t], count[t]  the task's locals           *)
(*   files          the container files on disk: path -> bytes             *)
(*   metrics        http_requests_metrics: a bag of labels                 *)
(*   response, request, handled   the last request the handler served, its *)
(*                  response, and how many requests it has served          *)
(* History, read by no action:                                             *)
(*   batch[t]       the PostData pushed onto container[t], in order        *)
(*   flushed[t]     one record per flush that reached File::create: the    *)
(*                  creation_time of its path, its batch, the container as *)
(*                  save_to_file left it, the result and the write fault   *)
(*   faults         how many file operations have failed or come up short  *)
(*   enqueued[t]    the PostData of the requests for type t whose send     *)
(*                  returned Ok, in send order                             *)
(* Each PostData carries two history fields: routed, the type_id of its    *)
(* request, and seq, the request's number.                                 *)
(***************************************************************************)
VARIABLES cContainer, cStage, cFault, cOrig, cFile, cResult,
          objects_in_container, chan, pc, creation_time, container, count,
          files, metrics, response, request, handled, batch, flushed, faults,
          enqueued, sizes, dataLen

cvars == << cContainer, cStage, cFault, cOrig, cFile, cResult,
           sizes, dataLen >>

pvars == << objects_in_container, chan, pc, creation_time, container, count,
            files, metrics, response, request, handled, batch, flushed,
            faults, enqueued >>

vars == << cvars, pvars >>

(***************************************************************************)
(* Bounds and input sets.                                                  *)
(***************************************************************************)
MicrosPerSec == 1000000
\* Clock readings of the pipeline (two instants of one second) and of the
\* codec harness (two seconds).
Instants == {0, 1}
CodecInstants == {0, MicrosPerSec}

AsSecs(micros) == micros \div MicrosPerSec

TypeA == 7
TypeB == 8
ConfiguredTypes == {TypeA, TypeB}

MaxEntries == 2
Hello == << 104, 105 >>
Block16 == [k \in 1..16 |-> k]
CodecInputs == { << 1, << >> >>, << 2, Hello >>, << 1, Block16 >> }

NotLoaded == Failed("NotLoaded")

\* The values a damaged byte may change to.
Damage(b) == {(b + 1) % 256, (b + 255) % 256}
MagicDamage == { << 0, 0, 0, 0 >>, << 218, 218, 218, 219 >>,
                 << 137, 80, 78, 71 >> }

SizesInit ==
    /\ sizes = << >>
    /\ dataLen = << 0, 0, 0, 0 >>

CodecInit ==
    /\ SizesInit
    /\ cContainer = ContainerNew(TypeA)
    /\ cStage = "build"
    /\ cFault = NoFault
    /\ cOrig = << >>
    /\ cFile = << >>
    /\ cResult = NotLoaded

CodecPush(writer_id, data, time) ==
    /\ cStage = "build"
    /\ Len(cContainer.toc) < MaxEntries
    /\ cContainer' = ContainerPush(cContainer, writer_id, data, AsSecs(time))
    /\ UNCHANGED << cStage, cFault, cOrig, cFile, cResult >>

CodecSave(fault) ==
    /\ cStage = "build"
    /\ LET out == SaveToFile(cContainer, fault)
       IN  /\ cContainer' = out.container
           /\ cStage' = IF out.ret = "Ok" THEN "saved" ELSE "savefail"
           /\ cOrig' = out.content
           /\ cFile' = out.content
    /\ cFault' = fault
    /\ UNCHANGED cResult

\* The positions at which the file differs from what the save left.
Damaged == {p \in 1..Len(cFile) : cFile[p] # cOrig[p]}

\* One byte of an intact, completely written file changes.
CodecCorruptByte ==
    /\ cStage = "saved"
    /\ cFault = NoFault
    /\ cFile = cOrig
    /\ \E pos \in 1..Len(cFile) : \E val \in Damage(cFile[pos]) :
           cFile' = [cFile EXCEPT ![pos] = val]
    /\ UNCHANGED << cContainer, cStage, cFault, cOrig, cResult >>

\* The first four bytes of a file change, whatever else it holds.
CodecCorruptMagic ==
    /\ cStage \in {"saved", "savefail"}
    /\ Len(cFile) >= 4
    /\ SubSeq(cFile, 1, 4) = SubSeq(cOrig, 1, 4)
    /\ \E word \in MagicDamage :
           cFile' = word \o SubSeq(cFile, 5, Len(cFile))
    /\ UNCHANGED << cContainer, cStage, cFault, cOrig, cResult >>

\* The values the toc_size field of a file may be replaced by.
TocSizes == {U32Of(n) : n \in 0..(MaxEntries + 2)}
                \cup {<< 1, 0 >>, << 65535, 65535 >>}

\* The toc_size field (bytes 17..20) of an intact, completely written file
\* is replaced by another value.
CodecCorruptTocSize ==
    /\ cStage = "saved"
    /\ cFault = NoFault
    /\ cFile = cOrig
    /\ \E size \in TocSizes \ {ReadU32(cFile, 17)} :
           cFile' = SubSeq(cFile, 1, 16) \o LE32(size)
                        \o SubSeq(cFile, 21, Len(cFile))
    /\ UNCHANGED << cContainer, cStage, cFault, cOrig, cResult >>

CodecLoad ==
    /\ cStage \in {"saved", "savefail"}
    /\ cResult' = FromFile(cFile)
    /\ cStage' = "loaded"
    /\ UNCHANGED << cContainer, cFault, cOrig, cFile >>

\* The container from_file returned is saved again (every write call taking
\* its whole buffer): cContainer and cOrig become the container and the bytes
\* of this second save, cFile stays the file that was read.
CodecResave ==
    /\ cStage = "loaded"
    /\ cResult.kind = "Ok"
    /\ \E out \in {SaveToFile(cResult.container, NoFault)} :
           /\ cContainer' = out.container
           /\ cOrig' = out.content
    /\ cStage' = "resaved"
    /\ UNCHANGED << cFault, cFile, cResult >>

CodecNext ==
    \/ \E in \in CodecInputs, time \in CodecInstants :
           CodecPush(in[1], in[2], time)
    \/ \E fault \in Faults(Len(cContainer.toc) + 3) : CodecSave(fault)
    \/ CodecCorruptByte
    \/ CodecCorruptMagic
    \/ CodecCorruptTocSize
    \/ CodecLoad
    \/ CodecResave

(***************************************************************************)
(* The pipeline.                                                           *)
(***************************************************************************)
ThresholdA == 2
ThresholdB == 1
MaxRequests == 3
MaxFlushes == 2
MaxFaults == 1

UnknownType == 9
\* The (type_id, writer_id, body) of the requests served.
Requests == { << TypeA, 1, Hello >>, << TypeA, 2, Hello >>,
              << TypeB, 1, Hello >>, << UnknownType, 1, Hello >>,
              << TypeA, WRITER_COUNT, Hello >> }

\* A senders map that hands each type the other type's channel.
SendersCrossed ==
    [t \in ConfiguredTypes |-> IF t = TypeA THEN TypeB ELSE TypeA]

\* senders: type_id -> the channel of that type's task.
Senders == [t \in ConfiguredTypes |-> t]

PostDataNew(writer_id, data, routed, seq) ==
    [writer_id |-> writer_id, data |-> data, routed |-> routed, seq |-> seq]

Path(type_id, time) == [type_id |-> type_id, creation_time |-> time]

HttpLabels(success, type_id, writer_id) ==
    [method |-> "POST", status |-> "Status2xx", success |-> success,
     type_id |-> type_id, writer_id |-> writer_id]

\* The configuration: objects_in_container of each [[types]] entry.
Config == [t \in ConfiguredTypes |->
              IF t = TypeA THEN ThresholdA ELSE ThresholdB]

\* A configuration check_config accepts as well: it looks only at each
\* type's root directory, so objects_in_container = 0 passes.
ConfigZero == [t \in ConfiguredTypes |->
                  IF t = TypeA THEN ThresholdA ELSE 0]

\* main before the first request, for the configuration cfg: one channel and
\* one spawned task per configured type.
PipeStart(cfg) ==
    /\ objects_in_container = cfg
    /\ chan = [t \in ConfiguredTypes |-> << >>]
    /\ pc = [t \in ConfiguredTypes |-> "start"]
    /\ creation_time = [t \in ConfiguredTypes |-> 0]
    /\ container = [t \in ConfiguredTypes |-> ContainerNew(t)]
    /\ count = [t \in ConfiguredTypes |-> 0]
    /\ files = << >>
    /\ metrics = EmptyBag
    /\ response = "none"
    /\ request = [type_id |-> 0, writer_id |-> 0]
    /\ handled = 0
    /\ batch = [t \in ConfiguredTypes |-> << >>]
    /\ flushed = [t \in ConfiguredTypes |-> << >>]
    /\ faults = 0
    /\ enqueued = [t \in ConfiguredTypes |-> << >>]

PipeInit == PipeStart(Config)

(***************************************************************************)
(* handler, for a POST whose path parsed to (type_id, writer_id).          *)
(***************************************************************************)
\* A writer check that lets writer_id = WRITER_COUNT through.
WriterRejectedOffByOne(writer_id) == writer_id > WRITER_COUNT

\* if writer_id >= WRITER_COUNT { ... return }
WriterRejected(writer_id) == writer_id >= WRITER_COUNT

\* A channel of one slot that drops what is sent while the slot is taken.
ChannelSendLossy(queue, msg) == IF queue = << >> THEN << msg >> ELSE queue

\* A channel that hands out the newest message first.
ChannelSendFront(queue, msg) == << msg >> \o queue

\* UnboundedSender::send: the message joins the back of the queue.
ChannelSend(queue, msg) == Append(queue, msg)

Reject(reason, label) ==
    /\ metrics' = metrics (+) SetToBag({label})
    /\ response' = reason
    /\ UNCHANGED << chan, enqueued >>

Send(type_id, writer_id, body) ==
    LET ch == Senders[type_id]
    IN  IF pc[ch] = "panicked"
        THEN \* the receiver is dropped: send returns Err and unwrap panics
             /\ response' = "panic"
             /\ UNCHANGED << chan, metrics, enqueued >>
        ELSE /\ chan' = [chan EXCEPT ![ch] =
                            ChannelSend(@, PostDataNew(writer_id, body,
                                                       type_id, handled + 1))]
             /\ metrics' = metrics
                    (+) SetToBag({HttpLabels("Yes", type_id, writer_id)})
             /\ response' = "ok"
             /\ enqueued' = [enqueued EXCEPT ![type_id] =
                    Append(@, PostDataNew(writer_id, body, type_id,
                                          handled + 1))]

Handler(type_id, writer_id, body) ==
    /\ handled < MaxRequests
    /\ handled' = handled + 1
    /\ request' = [type_id |-> type_id, writer_id |-> writer_id]
    /\ IF WriterRejected(writer_id)
       THEN Reject("reason42", HttpLabels("No", 0, 0))
       ELSE IF type_id \notin DOMAIN Senders
       THEN Reject("reason43", HttpLabels("No", 0, writer_id))
       ELSE Send(type_id, writer_id, body)
    /\ UNCHANGED << cvars, objects_in_container, pc, creation_time,
                    container, count, files, batch, flushed, faults >>

(***************************************************************************)
(* The Batch Writer task of type t.                                        *)
(***************************************************************************)
\* A loop that never leaves recv.
LoopContinuesAlways(n, limit) == TRUE

\* A loop that stops one object short of objects_in_container.
LoopContinuesShort(n, limit) == n + 1 < limit

\* LoopContinues with the bound read as inclusive (0..=objects_in_container).
LoopContinuesInclusive(n, limit) == n < limit + 1

\* for _ in 0..objects_in_container: whether the loop goes round again once
\* it has received n objects.
LoopContinues(n, limit) == n < limit

\* What the task does after File::create(..).unwrap() and
\* save_to_file(..).unwrap(): the next turn of the loop, or the panic.
AfterFlush(ret) == IF ret = "Ok" THEN "start" ELSE "panicked"

\* Top of the loop: creation_time and a fresh container.
StartBatch(t, time) ==
    /\ pc[t] = "start"
    /\ Len(flushed[t]) < MaxFlushes
    /\ creation_time' = [creation_time EXCEPT ![t] = time]
    /\ container' = [container EXCEPT ![t] = ContainerNew(t)]
    /\ count' = [count EXCEPT ![t] = 0]
    /\ batch' = [batch EXCEPT ![t] = << >>]
    /\ pc' = [pc EXCEPT ![t] =
                 IF LoopContinues(0, objects_in_container[t]) THEN "recv"
                                                              ELSE "flush"]
    /\ UNCHANGED << cvars, objects_in_container, chan, files, metrics,
                    response, request, handled, flushed, faults, enqueued >>

\* One turn of the for loop: receiver.recv().await, then container.push.
RecvPush(t, time) ==
    /\ pc[t] = "recv"
    /\ chan[t] # << >>
    /\ LET obj == Head(chan[t])
       IN  /\ container' = [container EXCEPT ![t] =
                  ContainerPush(@, obj.writer_id, obj.data, AsSecs(time))]
           /\ batch' = [batch EXCEPT ![t] = Append(@, obj)]
    /\ chan' = [chan EXCEPT ![t] = Tail(@)]
    /\ count' = [count EXCEPT ![t] = @ + 1]
    /\ pc' = [pc EXCEPT ![t] =
                 IF LoopContinues(count[t] + 1, objects_in_container[t])
                 THEN "recv" ELSE "flush"]
    /\ UNCHANGED << cvars, objects_in_container, creation_time, files,
                    metrics, response, request, handled, flushed, faults,
                    enqueued >>

FlushRecord(t, sealed, ret, fault) ==
    [creation_time |-> creation_time[t], batch |-> batch[t],
     container |-> sealed, ret |-> ret, fault |-> fault]

\* File::create(path).unwrap() fails: the task panics, its receiver is
\* dropped and what the channel held goes with it.
FlushCreateFails(t) ==
    /\ pc[t] = "flush"
    /\ faults < MaxFaults
    /\ faults' = faults + 1
    /\ pc' = [pc EXCEPT ![t] = AfterFlush("CreateErr")]
    /\ chan' = [chan EXCEPT ![t] =
                   IF AfterFlush("CreateErr") = "panicked" THEN << >> ELSE @]
    /\ flushed' = [flushed EXCEPT ![t] =
           Append(@, FlushRecord(t, container[t], "CreateErr", NoFault))]
    /\ UNCHANGED << cvars, objects_in_container, creation_time,
                    container, count, files, metrics, response, request,
                    handled, batch, enqueued >>

\* File::create makes or truncates the file at path; save_to_file
\* (SetChecksum, then WriteOut) writes it; unwrap panics on Err.  sealed is
\* the container with its checksum set, fault what the write calls meet.
FlushStep(t, sealed, fault) ==
    /\ fault = NoFault \/ faults < MaxFaults
    /\ faults' = IF fault = NoFault THEN faults ELSE faults + 1
    /\ \E path \in {Path(t, creation_time[t])},
          out \in {WriteOut(sealed, fault)} :
           /\ files' = [p \in DOMAIN files \cup {path} |->
                           IF p = path THEN out.content ELSE files[p]]
           /\ container' = [container EXCEPT ![t] = sealed]
           /\ flushed' = [flushed EXCEPT ![t] =
                  Append(@, FlushRecord(t, sealed, out.ret, fault))]
           /\ pc' = [pc EXCEPT ![t] = AfterFlush(out.ret)]
           /\ chan' = [chan EXCEPT ![t] =
                  IF AfterFlush(out.ret) = "panicked" THEN << >> ELSE @]

\* What a flush leaves alone.
FlushFrame ==
    UNCHANGED << cvars, objects_in_container, creation_time, count,
                 metrics, response, request, handled, batch, enqueued >>

Flush(t) ==
    /\ pc[t] = "flush"
    /\ FlushFrame
    /\ \E sealed \in {SetChecksum(container[t])},
          fault \in Faults(Len(container[t].toc) + 3) :
           FlushStep(t, sealed, fault)

\* The flush when file creation and every write call succeed in full.
FlushOk(t) ==
    /\ pc[t] = "flush"
    /\ FlushFrame
    /\ \E sealed \in {SetChecksum(container[t])} :
           FlushStep(t, sealed, NoFault)

Init ==
    /\ PipeInit
    /\ SizesInit
    /\ cContainer = ContainerNew(TypeA)
    /\ cStage = "build"
    /\ cFault = NoFault
    /\ cOrig = << >>
    /\ cFile = << >>
    /\ cResult = NotLoaded

Next ==
    \/ \E req \in Requests : Handler(req[1], req[2], req[3])
    \/ \E t \in ConfiguredTypes, time \in Instants : StartBatch(t, time)
    \/ \E t \in ConfiguredTypes, time \in Instants : RecvPush(t, time)
    \/ \E t \in ConfiguredTypes : FlushCreateFails(t)
    \/ \E t \in ConfiguredTypes : Flush(t)

Spec == Init /\ [][Next]_vars

\* The same program started with ConfigZero.
InitZero ==
    /\ PipeStart(ConfigZero)
    /\ SizesInit
    /\ cContainer = ContainerNew(TypeA)
    /\ cStage = "build"
    /\ cFault = NoFault
    /\ cOrig = << >>
    /\ cFile = << >>
    /\ cResult = NotLoaded

SpecZero == InitZero /\ [][Next]_vars

InitCodec ==
    /\ CodecInit
    /\ PipeInit

NextCodec == CodecNext /\ UNCHANGED << pvars, sizes, dataLen >>

SpecCodec == InitCodec /\ [][NextCodec]_vars

(***************************************************************************)
(* Container::push at the level of lengths, on a 64-bit target: a blob of  *)
(* len bytes makes data.len() grow by len (usize arithmetic) and adds a    *)
(* TOC entry with data_size = len as u32.  A usize is four 16-bit digits,  *)
(* high digit first.                                                       *)
(***************************************************************************)
MaxPushes == 3

\* usize addition, wrapping at 2^64.
UsizeAdd(x, y) ==
    LET s4 == x[4] + y[4]
        s3 == x[3] + y[3] + s4 \div 65536
        s2 == x[2] + y[2] + s3 \div 65536
        s1 == x[1] + y[1] + s2 \div 65536
    IN  << s1 % 65536, s2 % 65536, s3 % 65536, s4 % 65536 >>

\* `as u32` keeps the low 32 bits.
AsU32(x) == << x[3], x[4] >>

\* u32 to usize.
UsizeFrom(w) == << 0, 0, w[1], w[2] >>

\* The blob lengths pushed: 0, 1, 2^16, 2^32 - 1, 2^32, 2^32 + 5.
BlobLens == { << 0, 0, 0, 0 >>, << 0, 0, 0, 1 >>, << 0, 0, 1, 0 >>,
              << 0, 0, 65535, 65535 >>, << 0, 1, 0, 0 >>, << 0, 1, 0, 5 >> }

SizesPush(len) ==
    /\ Len(sizes) < MaxPushes
    /\ dataLen' = UsizeAdd(dataLen, len)
    /\ sizes' = Append(sizes, AsU32(len))
    /\ UNCHANGED << cContainer, cStage, cFault, cOrig, cFile, cResult, pvars >>

NextSizes == \E len \in BlobLens : SizesPush(len)

SpecSizes == InitCodec /\ [][NextSizes]_vars

(***************************************************************************)
(* The pipeline without file I/O failure, its batch writers scheduled      *)
(* fairly: a spawned task that can take a step (its recv has a message, or *)
(* it is not waiting at all) is polled by the runtime.                     *)
(***************************************************************************)
Writer(t) ==
    \/ \E time \in Instants : StartBatch(t, time)
    \/ \E time \in Instants : RecvPush(t, time)
    \/ FlushOk(t)

NextLive ==
    \/ \E req \in Requests : Handler(req[1], req[2], req[3])
    \/ \E t \in ConfiguredTypes : Writer(t)

SpecLive ==
    /\ Init
    /\ [][NextLive]_vars
    /\ \A t \in ConfiguredTypes : WF_vars(Writer(t))

(***************************************************************************)
(* What the properties below speak of.                                     *)
(***************************************************************************)
\* The bytes a complete save leaves in the file.
Encoding(c) == Concat(WriteCalls(c))

\* The objects the task has received for the container it is filling.
InFlight(t) == IF pc[t] \in {"recv", "flush"} THEN batch[t] ELSE << >>

\* Every object the task of type t has received so far, in receive order.
Dequeued(t) ==
    Concat([k \in 1..Len(flushed[t]) |-> flushed[t][k].batch]) \o InFlight(t)

\* The paths on disk that belong to type t.
FilesOf(t) == {p \in DOMAIN files : p.type_id = t}

\* Container c holds exactly the objects of b, in the order of b.
Holds(c, b) ==
    /\ Len(c.toc) = Len(b)
    /\ \A k \in 1..Len(b) :
           /\ c.toc[k].writer_id = U32Of(b[k].writer_id)
           /\ c.toc[k].data_size = U32Of(Len(b[k].data))
    /\ c.data = Concat([k \in 1..Len(b) |-> b[k].data])

\* The file at path p is what some flush of type t wrote there.
WrittenByFlush(p, t) ==
    \E k \in 1..Len(flushed[t]) :
        /\ flushed[t][k].ret # "CreateErr"
        /\ flushed[t][k].creation_time = p.creation_time
        /\ files[p] = WriteOut(flushed[t][k].container,
                               flushed[t][k].fault).content

\* C1: for a type with threshold N >= 1, no file of the type exists while
\* fewer than N objects have been received; once N have been received and
\* the first flush has succeeded, and until 2N have been received, exactly
\* one file of the type exists, its container holds exactly the first N
\* objects received in receive order (and, every write call having taken its
\* whole buffer, the file is that container's encoding), and every object
\* received after the Nth is in the fresh container being filled.
C1_OneFilePerNObjects ==
    \A t \in ConfiguredTypes :
        LET N == objects_in_container[t]
            D == Dequeued(t)
        IN  N >= 1 =>
            /\ Len(D) < N => flushed[t] = << >> /\ FilesOf(t) = {}
            /\ (Len(D) >= N /\ Len(D) < 2 * N /\ flushed[t] # << >>
                    /\ flushed[t][1].ret = "Ok") =>
                   LET first == flushed[t][1]
                       path == Path(t, first.creation_time)
                   IN  /\ Len(flushed[t]) = 1
                       /\ FilesOf(t) = {path}
                       /\ first.batch = SubSeq(D, 1, N)
                       /\ Holds(first.container, first.batch)
                       /\ first.fault = NoFault =>
                              files[path] = Encoding(first.container)
                       /\ InFlight(t) = SubSeq(D, N + 1, Len(D))
                       /\ pc[t] \in {"recv", "flush"} =>
                              Holds(container[t], InFlight(t))

\* C1 witness: a type with threshold 2 has flushed its first two objects
\* into one file and holds a third in a fresh container.
C1_Witness ==
    \E t \in ConfiguredTypes :
        /\ objects_in_container[t] >= 2
        /\ Len(flushed[t]) = 1
        /\ flushed[t][1].ret = "Ok"
        /\ flushed[t][1].fault = NoFault
        /\ Len(flushed[t][1].batch) = objects_in_container[t]
        /\ pc[t] = "recv"
        /\ Len(container[t].toc) = 1
        /\ Cardinality(FilesOf(t)) = 1

\* C2: an object posted for type T is only ever in the channel, the batch,
\* the containers and the files of type T: everything in the pipeline of a
\* type was posted for that type, its containers carry that type_id, and
\* every file under a type's path was written by a flush of that type.
C2_RoutedToOwnType ==
    \A t \in ConfiguredTypes :
        /\ \A k \in 1..Len(chan[t]) : chan[t][k].routed = t
        /\ \A k \in 1..Len(batch[t]) : batch[t][k].routed = t
        /\ container[t].data_header.type_id = U32Of(t)
        /\ \A k \in 1..Len(flushed[t]) :
               /\ flushed[t][k].container.data_header.type_id = U32Of(t)
               /\ \A j \in 1..Len(flushed[t][k].batch) :
                      flushed[t][k].batch[j].routed = t
               /\ Holds(flushed[t][k].container, flushed[t][k].batch)
        /\ \A p \in FilesOf(t) : WrittenByFlush(p, t)

\* C2 witness: both types have been posted to and each has a file.
C2_Witness ==
    \A t \in ConfiguredTypes :
        /\ flushed[t] # << >>
        /\ flushed[t][1].ret = "Ok"
        /\ flushed[t][1].batch # << >>
        /\ FilesOf(t) # {}

\* C3: within one type, objects are received, pushed and written in the
\* order they were sent: the request numbers rise strictly along the flushed
\* batches, then the batch in flight, then the channel, and every container
\* lists its batch in that order.
C3_SendOrderKept ==
    \A t \in ConfiguredTypes :
        LET all == Dequeued(t) \o chan[t]
        IN  /\ \A i, j \in 1..Len(all) : i < j => all[i].seq < all[j].seq
            /\ \A k \in 1..Len(flushed[t]) :
                   Holds(flushed[t][k].container, flushed[t][k].batch)
            /\ pc[t] \in {"recv", "flush"} => Holds(container[t], batch[t])
            /\ \A p \in FilesOf(t) : WrittenByFlush(p, t)

\* C3 witness: a file holds two objects of different writers, sent in that
\* order, and a later object of the type waits in the channel.
C3_Witness ==
    \E t \in ConfiguredTypes :
        /\ flushed[t] # << >>
        /\ flushed[t][1].ret = "Ok"
        /\ flushed[t][1].fault = NoFault
        /\ Len(flushed[t][1].batch) = 2
        /\ flushed[t][1].batch[1].writer_id # flushed[t][1].batch[2].writer_id
        /\ files[Path(t, flushed[t][1].creation_time)]
               = Encoding(flushed[t][1].container)
        /\ chan[t] # << >>

\* C4: a container saved with every write call taking its whole buffer, and
\* read back from the untouched file, loads without error and has the
\* type_id, the TOC entries (writer_id, data_size, timestamp, in order) and
\* the payload bytes it was saved with; saved empty it loads with toc_size 0
\* and no payload.
C4_RoundTrip ==
    (cStage = "loaded" /\ cFault = NoFault /\ cFile = cOrig) =>
        /\ cResult.kind = "Ok"
        /\ cResult.container.data_header.type_id
               = cContainer.data_header.type_id
        /\ cResult.container.toc = cContainer.toc
        /\ cResult.container.data = cContainer.data
        /\ cResult.container.data_header.toc_size = U32Of(Len(cContainer.toc))
        /\ cContainer.toc = << >> => cResult.container.data = << >>

\* C4 witness: a container of two entries, one of them pushed at second 1
\* with a payload, has been saved whole and read back.
C4_Witness ==
    /\ cStage = "loaded"
    /\ cFault = NoFault
    /\ cFile = cOrig
    /\ cResult.kind = "Ok"
    /\ Len(cContainer.toc) = 2
    /\ \E k \in 1..2 : cContainer.toc[k].timestamp = U64Of(1)
    /\ cContainer.data # << >>

\* C5: a completely written file in which one byte after the magic has been
\* changed is rejected by from_file with InvalidData.
C5_DamageIsInvalidData ==
    (cStage = "loaded" /\ cFault = NoFault /\ Cardinality(Damaged) = 1
         /\ Damaged \cap (1..4) = {}) =>
        cResult.kind = "InvalidData"

\* C6: a file whose first four bytes are not the magic is rejected by
\* from_file with Unsupported, whatever the rest of the file holds.
C6_MagicFirst ==
    (cStage = "loaded" /\ Len(cFile) >= 4 /\ ReadU32(cFile, 1) # MAGIC) =>
        cResult.kind = "Unsupported"

\* C6 witness: a file with a changed magic and a changed byte further on has
\* been read and rejected with Unsupported.
C6_Witness ==
    /\ cStage = "loaded"
    /\ Len(cFile) >= 4
    /\ ReadU32(cFile, 1) # MAGIC
    /\ Damaged \ (1..4) # {}
    /\ cResult.kind = "Unsupported"

\* The request just served is one the handler must reject.
Rejectable(req) ==
    req.writer_id >= WRITER_COUNT \/ req.type_id \notin ConfiguredTypes

\* C7: a request whose writer_id is at least WRITER_COUNT or whose type_id
\* is not configured is answered with a rejection (reason 42 or 43), and
\* serving it changes no channel, no container being filled, no batch writer
\* and no file.
C7_RejectionChangesNothing ==
    [][(handled' = handled + 1 /\ Rejectable(request')) =>
           /\ response' \in {"reason42", "reason43"}
           /\ UNCHANGED << chan, container, count, batch, pc, creation_time,
                           files, flushed >>]_vars

\* C7 witness: a request has just been rejected while a container is being
\* filled and a file is on disk.
C7_Witness ==
    /\ handled > 0
    /\ Rejectable(request)
    /\ response \in {"reason42", "reason43"}
    /\ \E t \in ConfiguredTypes : pc[t] = "recv" /\ container[t].toc # << >>
    /\ DOMAIN files # {}

\* C8: the path of every flush differs from the path of every earlier flush
\* of the same type: no two flushes of a type share a creation_time.
C8_PathsNeverReused ==
    \A t \in ConfiguredTypes :
        \A i, j \in 1..Len(flushed[t]) :
            i < j => flushed[t][i].creation_time # flushed[t][j].creation_time

\* C9: the last request served, if its type_id is configured and its
\* writer_id is below WRITER_COUNT, was answered with success, also after
\* the batch writer of its type has panicked.
C9_ValidRequestSucceeds ==
    (handled > 0 /\ ~Rejectable(request)) => response = "ok"

\* C10: once the flush of a type has failed, its batch writer has stopped
\* with that flush as its last, the file that flush created holds no TOC
\* entry of the batch, and every other batch writer that has stopped did so
\* on a failed flush of its own.
C10_FailedFlushLeavesNoEntries ==
    \A t \in ConfiguredTypes :
        \A k \in 1..Len(flushed[t]) :
            flushed[t][k].ret # "Ok" =>
                /\ k = Len(flushed[t])
                /\ pc[t] = "panicked"
                /\ flushed[t][k].ret = "Err" =>
                       Len(files[Path(t, flushed[t][k].creation_time)])
                           <= FileHeaderLen + DataHeaderLen
                /\ \A u \in ConfiguredTypes \ {t} :
                       pc[u] = "panicked" =>
                           /\ flushed[u] # << >>
                           /\ flushed[u][Len(flushed[u])].ret # "Ok"

\* The request numbers of the objects of a batch.
SeqsOf(b) == {b[k].seq : k \in 1..Len(b)}

\* C11: every flush of a type writes a container of exactly
\* objects_in_container entries, never fewer; every file of the type was
\* written by such a flush and, its write calls having each taken their whole
\* buffer, is the encoding of a container with that many entries; and the
\* objects of a partly filled batch are in the container of no flush.
C11_NoPartialFlush ==
    \A t \in ConfiguredTypes :
        LET N == objects_in_container[t]
        IN  /\ \A k \in 1..Len(flushed[t]) :
                   /\ Len(flushed[t][k].batch) = N
                   /\ Len(flushed[t][k].container.toc) = N
                   /\ SeqsOf(InFlight(t)) \cap SeqsOf(flushed[t][k].batch) = {}
            /\ \A p \in FilesOf(t) :
                   \E k \in 1..Len(flushed[t]) :
                       LET rec == flushed[t][k]
                       IN  /\ rec.ret # "CreateErr"
                           /\ rec.creation_time = p.creation_time
                           /\ files[p] = WriteOut(rec.container,
                                                  rec.fault).content
                           /\ rec.fault = NoFault =>
                                  /\ ReadU32(files[p], 17) = U32Of(N)
                                  /\ Len(files[p])
                                         = FileHeaderLen + DataHeaderLen
                                               + TocEntryLen * N
                                               + Len(rec.container.data)
            /\ pc[t] = "recv" => Len(container[t].toc) < N

\* C11 witness: a type with threshold 2 holds one object in its container,
\* its channel is idle, no file of the type exists, and the other type has
\* flushed a full container.
C11_Witness ==
    \E t, u \in ConfiguredTypes :
        /\ objects_in_container[t] = 2
        /\ pc[t] = "recv"
        /\ Len(container[t].toc) = 1
        /\ chan[t] = << >>
        /\ FilesOf(t) = {}
        /\ u # t
        /\ flushed[u] # << >>
        /\ flushed[u][1].ret = "Ok"
        /\ FilesOf(u) # {}

\* C12: while the batch writer of a type is alive, the objects enqueued for
\* the type are, in order, the batches of the containers its flushes wrote,
\* then the objects of the container being filled, then the objects in the
\* channel; each container holds exactly its batch, so no accepted object is
\* dropped, duplicated or in two containers.
C12_Conservation ==
    \A t \in ConfiguredTypes :
        pc[t] # "panicked" =>
            /\ enqueued[t] = Dequeued(t) \o chan[t]
            /\ \A i, j \in 1..Len(enqueued[t]) :
                   i # j => enqueued[t][i].seq # enqueued[t][j].seq
            /\ \A k \in 1..Len(flushed[t]) :
                   /\ flushed[t][k].ret = "Ok"
                   /\ Holds(flushed[t][k].container, flushed[t][k].batch)
            /\ pc[t] \in {"recv", "flush"} => Holds(container[t], batch[t])

\* C12 witness: a live batch writer has written a container, holds an
\* object in the next one, and a further object waits in its channel.
C12_Witness ==
    \E t \in ConfiguredTypes :
        /\ pc[t] \in {"recv", "flush"}
        /\ flushed[t] # << >>
        /\ container[t].toc # << >>
        /\ chan[t] # << >>
        /\ Len(enqueued[t]) = 3

\* Every multiple k * N of the threshold N >= 1 that the number of objects
\* enqueued for type t has reached is matched by k written containers.
CaughtUp(t) ==
    objects_in_container[t] >= 1 =>
        \A k \in 1..MaxFlushes :
            Len(enqueued[t]) >= k * objects_in_container[t] =>
                /\ Len(flushed[t]) >= k
                /\ \A i \in 1..k : flushed[t][i].ret = "Ok"

\* C13: with no file I/O failure and the batch writers scheduled fairly,
\* whenever k * N objects have been enqueued for a type of threshold N >= 1,
\* eventually k containers of the type have been written (the counts only
\* grow, so: the writer is caught up again and again); and a batch writer
\* never stays at its flush forever.
C13_FlushLiveness ==
    \A t \in ConfiguredTypes :
        /\ []<>CaughtUp(t)
        /\ []<>(pc[t] # "flush")

\* C13 witness: twice the threshold has been enqueued for a type and two
\* containers of the type have been written.
C13_Witness ==
    \E t \in ConfiguredTypes :
        /\ objects_in_container[t] >= 1
        /\ Len(enqueued[t]) >= 2 * objects_in_container[t]
        /\ Len(flushed[t]) = 2
        /\ flushed[t][2].ret = "Ok"
        /\ pc[t] = "start"

\* The sum of a sequence of u32 values, as a usize.
RECURSIVE SumSizes(_)
SumSizes(ws) ==
    IF ws = << >> THEN << 0, 0, 0, 0 >>
    ELSE UsizeAdd(UsizeFrom(Head(ws)), SumSizes(Tail(ws)))

\* C14: after any sequence of push calls, the data_size values of the TOC
\* entries sum to the length of the payload.
C14_SizesSumToPayload == SumSizes(sizes) = dataLen

\* C15: push leaves the stored data_header.toc_size at its creation value
\* 0; the data header save_to_file writes (bytes 17..20 of the file, when
\* the two headers were written whole) and the data header the stored
\* checksum was computed over carry toc_size = the number of TOC entries.
C15_TocSizeIsEntryCount ==
    /\ cStage \in {"build", "saved", "savefail"} =>
           cContainer.data_header.toc_size = U32Of(0)
    /\ (cStage \in {"saved", "savefail"} /\ cFault.at \notin {1, 2}
            /\ Len(cOrig) >= FileHeaderLen + DataHeaderLen) =>
           ReadU32(cOrig, 17) = U32Of(Len(cContainer.toc))
    /\ (cStage = "saved" /\ cFile = cOrig) =>
           cContainer.file_header.checksum
               = Crc32(DataHeaderAsBytes(
                           DataHeaderNew(VERSION,
                                         cContainer.data_header.type_id,
                                         U32Of(Len(cContainer.toc)),
                                         RESERVED))
                       \o TocAsBytes(cContainer) \o cContainer.data)

\* C15 witness: a container of two entries has been saved whole; its file
\* says toc_size 2 while the stored field still says 0.
C15_Witness ==
    /\ cStage = "saved"
    /\ cFault = NoFault
    /\ cFile = cOrig
    /\ Len(cContainer.toc) = 2
    /\ ReadU32(cOrig, 17) = U32Of(2)
    /\ cContainer.data_header.toc_size = U32Of(0)

\* C16: a completely written file whose toc_size field alone has been
\* changed never loads: from_file fails reading the TOC (UnexpectedEof) or
\* fails the checksum comparison (InvalidData).
C16_TocSizeDamageCaught ==
    (cStage = "loaded" /\ cFault = NoFault /\ Damaged # {}
         /\ Damaged \subseteq 17..20) =>
        cResult.kind \in {"UnexpectedEof", "InvalidData"}

\* C16 witness: the file of a two-entry container has had its toc_size
\* lowered to 1, so that the second TOC entry reads as payload, and was
\* rejected with InvalidData; or the file of a one-entry container with 16
\* payload bytes has had it raised to 2, with the same outcome.
C16_Witness ==
    /\ cStage = "loaded"
    /\ cFault = NoFault
    /\ Damaged # {}
    /\ Damaged \subseteq 17..20
    /\ cResult.kind = "InvalidData"
    /\ \/ Len(cContainer.toc) = 2 /\ ReadU32(cFile, 17) = U32Of(1)
       \/ /\ Len(cContainer.toc) = 1
          /\ Len(cContainer.data) = TocEntryLen
          /\ ReadU32(cFile, 17) = U32Of(2)

\* C17: when a container that from_file returned is saved again, the data
\* header written (bytes 9..64: version, type_id, toc_size, reserved) is
\* byte for byte the data header of the file that was read, and the checksum
\* from_file accepted covers the version and reserved values it read.
C17_HeaderRoundTrips ==
    cStage = "resaved" =>
        /\ SubSeq(cOrig, FileHeaderLen + 1, FileHeaderLen + DataHeaderLen)
               = SubSeq(cFile, FileHeaderLen + 1, FileHeaderLen + DataHeaderLen)
        /\ cResult.container.file_header.checksum
               = Crc32(DataHeaderAsBytes(cResult.container.data_header)
                       \o TocAsBytes(cResult.container)
                       \o cResult.container.data)

\* C18: whenever save_to_file has returned Ok (no write call returned Err,
\* though one may have accepted only part of its buffer), the file is the
\* complete encoding of the container, and from_file on the untouched file
\* returns Ok with the container's type, entries and payload.
C18_OkSaveIsWhole ==
    /\ cStage = "saved" => cOrig = Encoding(cContainer)
    /\ (cStage = "loaded" /\ cFault.kind # "fail" /\ cFile = cOrig) =>
           /\ cResult.kind = "Ok"
           /\ cResult.container.data_header.type_id
                  = cContainer.data_header.type_id
           /\ cResult.container.toc = cContainer.toc
           /\ cResult.container.data = cContainer.data

\* C19: under every accepted configuration, also one with
\* objects_in_container = 0, every file a Batch Writer wrote holds at least
\* one dequeued blob, and a type that never had a blob enqueued has no file.
C19_FlushNeedsBlobs ==
    \A t \in ConfiguredTypes :
        /\ \A k \in 1..Len(flushed[t]) :
               flushed[t][k].ret # "CreateErr" => flushed[t][k].batch # << >>
        /\ enqueued[t] = << >> => FilesOf(t) = {}

=============================================================================
